---- MODULE Spec2Model ----
(***************************************************************************)
(* EIP-1559 transaction encoding and signing (src/transaction.rs) and the  *)
(* salt helpers (src/utils.rs).                                            *)
(*                                                                         *)
(* Bytes are the integers 0..255 and a byte string is a sequence of them.  *)
(* A U256 is held as its 32 big-endian bytes (U256::to_be_bytes), so that  *)
(* full-width values such as the r and s of a signature are exact.         *)
(* An Option is a sequence of length at most one: None is << >> and        *)
(* Some(x) is << x >>.                                                     *)
(***************************************************************************)
EXTENDS Integers, Sequences, FiniteSets, TLC

VARIABLES
    tx,        \* the Transaction the calls below are made on (self)
    pc,        \* where the caller is: "idle", or inside sign_with_wallet
    call,      \* the operation that returned last, "" before the first
    arg,       \* the Option<Signature> given to the last rlp_encode
    ret,       \* what the last operation returned
    signLog,   \* digests handed to wallet.sign by the current sign_with_wallet
    answer,    \* what wallet.sign answered: << >> before, <<"Ok", sig>> or <<"Err", e>>
    encodeLog, \* Option<Signature> of every rlp_encode run by the current sign_with_wallet
    size,      \* generate_salt: the size asked for
    salt,      \* generate_salt: the buffer
    seed,      \* get_rng: the entropy the generator was seeded from
    spc,       \* generate_salt: position ("idle", "fill", "assert", "returned", "panic")
    sret       \* get_random_bytes: its io::Result, << >> while none was produced

vars == <<tx, pc, call, arg, ret, signLog, answer, encodeLog, size, salt, seed, spc, sret>>
txVars == <<tx, pc, call, arg, ret, signLog, answer, encodeLog>>
saltVars == <<size, salt, seed, spc, sret>>

(***************************************************************************)
(* Bounds of the model.                                                    *)
(***************************************************************************)
\* calldata of every length 0..MaxDataLen is tried (the 55/56 boundary is inside)
MaxDataLen == 57
\* addresses plus storage keys of an access list
MaxAccessItems == 4
\* generate_salt is called with every size 0..MaxSaltSize (the 256 limit is inside)
MaxSaltSize == 258
\* seeds the random generator may start from: 0..MaxSeed
MaxSeed == 1

None == << >>
Some(x) == << x >>

Fill(n, b) == [i \in 1..n |-> b]

RECURSIVE Concat(_)
Concat(ss) == IF ss = << >> THEN << >> ELSE Head(ss) \o Concat(Tail(ss))

(***************************************************************************)
(* U256 values.                                                            *)
(***************************************************************************)
\* a value below 2^31 as a U256: its 32 big-endian bytes
as_u256(n) ==
    [i \in 1..32 |->
        CASE i = 32 -> n % 256
          [] i = 31 -> (n \div 256) % 256
          [] i = 30 -> (n \div 65536) % 256
          [] i = 29 -> (n \div 16777216) % 256
          [] OTHER  -> 0]

\* a U256 from its significant big-endian bytes
U256Of(b) == Fill(32 - Len(b), 0) \o b

(***************************************************************************)
(* The rlp module (mod rlp of src/transaction.rs; its file is not among    *)
(* the sources, so it follows section 4.1 of the specification).           *)
(***************************************************************************)
\* the minimal big-endian bytes of a length
RECURSIVE be_bytes(_)
be_bytes(n) == IF n = 0 THEN << >> ELSE be_bytes(n \div 256) \o <<n % 256>>

\* the length prefix of a string (offset 0x80) or of a list (offset 0xc0)
rlp_len(n, offset) ==
    IF n <= 55
    THEN <<offset + n>>
    ELSE LET bl == be_bytes(n) IN <<offset + 55 + Len(bl)>> \o bl

rlp_bytes(b) ==
    IF Len(b) = 1 /\ b[1] <= 127
    THEN b
    ELSE rlp_len(Len(b), 128) \o b

\* the bytes of a U256 from its first non-zero byte on
minimal_be(v) ==
    LET nz == {i \in 1..Len(v) : v[i] # 0}
    IN  IF nz = {} THEN << >>
        ELSE SubSeq(v, CHOOSE i \in nz : \A j \in nz : i <= j, Len(v))

rlp_uint(v) == rlp_bytes(minimal_be(v))

\* a list of items that are encoded already
rlp_iter(items) ==
    LET body == Concat(items)
    IN  rlp_len(Len(body), 192) \o body

(***************************************************************************)
(* AccessList (mod accesslist; follows section 4.2 of the specification).  *)
(* An access list is a sequence of pairs <<address, storage keys>>.        *)
(***************************************************************************)
access_list_rlp_encode(al) ==
    rlp_iter([i \in 1..Len(al) |->
        rlp_iter(<<rlp_bytes(al[i][1]),
                   rlp_iter([j \in 1..Len(al[i][2]) |-> rlp_bytes(al[i][2][j])])>>)])

(***************************************************************************)
(* utils::hash::keccak256 and Wallet::sign are collaborators outside the   *)
(* sources.  keccak256 is a fixed function from byte strings to 32 bytes;  *)
(* the stand-in below keeps that shape (deterministic, 32 bytes out, the   *)
(* whole input absorbed) without being Keccak.  Wallet::sign answers a     *)
(* digest with Ok(signature) or Err(error).                                *)
(***************************************************************************)
\* the bytes b[lo..hi] absorbed into one number below 65521
RECURSIVE absorb(_, _, _)
absorb(b, lo, hi) ==
    IF lo > hi THEN 1
    ELSE IF lo = hi THEN (b[lo] + 7 * lo) % 65521
    ELSE LET mid == (lo + hi) \div 2
         IN  (absorb(b, lo, mid) * 31 + absorb(b, mid + 1, hi)) % 65521

keccak256(b) ==
    LET h == absorb(b, 1, Len(b))
    IN  [i \in 1..32 |-> ((h \div i) + 37 * i) % 256]

(***************************************************************************)
(* Transaction (src/transaction.rs).                                       *)
(***************************************************************************)
\* #[derive(Default)]: every number zero, no target, no calldata, no access list
TransactionDefault ==
    [chain_id |-> as_u256(0), nonce |-> as_u256(0),
     max_priority_fee_per_gas |-> as_u256(0), max_fee_per_gas |-> as_u256(0),
     gas |-> as_u256(0), to |-> None, value |-> as_u256(0),
     data |-> << >>, access_list |-> << >>]

(***************************************************************************)
(* Slips the properties below must catch, each a variant of the            *)
(* definition that follows them.                                           *)
(***************************************************************************)
\* the nonce written before the chain id
fields_nonce_first(self) ==
    << rlp_uint(self.nonce),
       rlp_uint(self.chain_id),
       rlp_uint(self.max_priority_fee_per_gas),
       rlp_uint(self.max_fee_per_gas),
       rlp_uint(self.gas),
       IF self.to = None THEN rlp_bytes(<< >>) ELSE rlp_bytes(self.to[1]),
       rlp_uint(self.value),
       rlp_bytes(self.data),
       access_list_rlp_encode(self.access_list) >>

\* the nonce written with rlp::bytes over all its 32 bytes instead of rlp::uint
fields_fixed_width_nonce(self) ==
    << rlp_uint(self.chain_id),
       rlp_bytes(self.nonce),
       rlp_uint(self.max_priority_fee_per_gas),
       rlp_uint(self.max_fee_per_gas),
       rlp_uint(self.gas),
       IF self.to = None THEN rlp_bytes(<< >>) ELSE rlp_bytes(self.to[1]),
       rlp_uint(self.value),
       rlp_bytes(self.data),
       access_list_rlp_encode(self.access_list) >>

\* self.to.unwrap_or_default(): no target written as the zero address
fields_to_or_default(self) ==
    << rlp_uint(self.chain_id),
       rlp_uint(self.nonce),
       rlp_uint(self.max_priority_fee_per_gas),
       rlp_uint(self.max_fee_per_gas),
       rlp_uint(self.gas),
       IF self.to = None THEN rlp_bytes(Fill(20, 0)) ELSE rlp_bytes(self.to[1]),
       rlp_uint(self.value),
       rlp_bytes(self.data),
       access_list_rlp_encode(self.access_list) >>

\* the calldata copied as it is, without rlp::bytes
fields_raw_data(self) ==
    << rlp_uint(self.chain_id),
       rlp_uint(self.nonce),
       rlp_uint(self.max_priority_fee_per_gas),
       rlp_uint(self.max_fee_per_gas),
       rlp_uint(self.gas),
       IF self.to = None THEN rlp_bytes(<< >>) ELSE rlp_bytes(self.to[1]),
       rlp_uint(self.value),
       self.data,
       access_list_rlp_encode(self.access_list) >>

\* an empty access list left out
fields_skip_empty_access_list(self) ==
    << rlp_uint(self.chain_id),
       rlp_uint(self.nonce),
       rlp_uint(self.max_priority_fee_per_gas),
       rlp_uint(self.max_fee_per_gas),
       rlp_uint(self.gas),
       IF self.to = None THEN rlp_bytes(<< >>) ELSE rlp_bytes(self.to[1]),
       rlp_uint(self.value),
       rlp_bytes(self.data) >> \o
    (IF self.access_list = << >> THEN << >>
     ELSE <<access_list_rlp_encode(self.access_list)>>)

\* the nine items every encoding starts with
fields(self) ==
    << rlp_uint(self.chain_id),
       rlp_uint(self.nonce),
       rlp_uint(self.max_priority_fee_per_gas),
       rlp_uint(self.max_fee_per_gas),
       rlp_uint(self.gas),
       IF self.to = None THEN rlp_bytes(<< >>) ELSE rlp_bytes(self.to[1]),
       rlp_uint(self.value),
       rlp_bytes(self.data),
       access_list_rlp_encode(self.access_list) >>

\* s written before r
tail_s_before_r(signature) ==
    IF signature = None
    THEN << >>
    ELSE << rlp_uint(as_u256(signature[1].y_parity)),
            rlp_uint(signature[1].s),
            rlp_uint(signature[1].r) >>

\* signature.map(..): the three items of a signature, none without one
tail(signature) ==
    IF signature = None
    THEN << >>
    ELSE << rlp_uint(as_u256(signature[1].y_parity)),
            rlp_uint(signature[1].r),
            rlp_uint(signature[1].s) >>

\* the type byte forgotten
rlp_encode_no_type_byte(self, signature) ==
    rlp_iter(fields(self) \o tail(signature))

\* the signature items appended after the list, whose prefix does not count them
rlp_encode_tail_outside(self, signature) ==
    <<2>> \o rlp_iter(fields(self)) \o Concat(tail(signature))

\* the EIP-2718 type byte, then the list of the items
rlp_encode(self, signature) ==
    <<2>> \o rlp_iter(fields(self) \o tail(signature))

get_unsigned_rlp_encoded(self) == keccak256(rlp_encode(self, None))

get_signed_rlp_encoded(self, signature) == rlp_encode(self, Some(signature))

(***************************************************************************)
(* The inputs the calls are tried on.                                      *)
(***************************************************************************)
ZeroAddress == Fill(20, 0)
DeadBeef == <<\hde, \had, \hbe, \hef, \hde, \had, \hbe, \hef, \hde, \had,
              \hbe, \hef, \hde, \had, \hbe, \hef, \hde, \had, \hbe, \hef>>
Addresses == {Fill(20, \h11), Fill(20, \h22)}
StorageSlots == {Fill(32, \ha0), Fill(32, \ha1)}

Gwei28 == U256Of(<<\h06, \h84, \hee, \h18, \h00>>)                    \* 28e9
Gwei42 == U256Of(<<\h09, \hc7, \h65, \h24, \h00>>)                    \* 42e9
Ether1337 == U256Of(<<\hb9, \h8b, \hc8, \h29, \ha6, \hf9, \h00, \h00>>) \* 13.37e18
U256Max == Fill(32, 255)                                              \* 2^256 - 1
U256Top == <<128>> \o Fill(31, 0)                                     \* 2^255

ChainIds == {as_u256(1), as_u256(255)}
Nonces == {as_u256(0), as_u256(256)}
PriorityFees == {as_u256(127), Gwei28}
MaxFees == {as_u256(128), Gwei42}
Gases == {as_u256(21000), U256Max}
Values == {as_u256(0), Ether1337, U256Top}
Targets == {None, Some(ZeroAddress), Some(DeadBeef)}

\* the transaction of tests::encode_signed_transaction
SignedTestTx ==
    [chain_id |-> as_u256(1), nonce |-> as_u256(0),
     max_priority_fee_per_gas |-> as_u256(0), max_fee_per_gas |-> as_u256(0),
     gas |-> as_u256(21000), to |-> Some(ZeroAddress), value |-> as_u256(0),
     data |-> << >>, access_list |-> << >>]

\* the two transactions of tests::encode
EncodeTestTx1 ==
    [chain_id |-> as_u256(1), nonce |-> as_u256(66),
     max_priority_fee_per_gas |-> Gwei28, max_fee_per_gas |-> Gwei42,
     gas |-> as_u256(30000), to |-> Some(DeadBeef), value |-> Ether1337,
     data |-> << >>, access_list |-> << >>]

EncodeTestData ==
    <<\h36, \h3d, \h3d, \h37, \h3d, \h3d, \h3d, \h36, \h3d, \h73>> \o DeadBeef \o
    <<\h5a, \hf4, \h3d, \h82, \h80, \h3e, \h90, \h3d, \h91, \h60, \h2b, \h57,
      \hfd, \h5b, \hf3>>

EncodeTestTx2 ==
    [chain_id |-> as_u256(1), nonce |-> as_u256(777),
     max_priority_fee_per_gas |-> Gwei28, max_fee_per_gas |-> Gwei42,
     gas |-> as_u256(100000), to |-> None, value |-> as_u256(0),
     data |-> EncodeTestData,
     access_list |-> << <<Fill(20, \h11), <<Fill(32, \ha0), Fill(32, \ha1)>> >>,
                        <<Fill(20, \h22), << >> >> >>]

\* every combination of the sampled numbers and targets
NumericTxs ==
    {[chain_id |-> c, nonce |-> n, max_priority_fee_per_gas |-> p,
      max_fee_per_gas |-> m, gas |-> g, to |-> t, value |-> v,
      data |-> << >>, access_list |-> << >>] :
        c \in ChainIds, n \in Nonces, p \in PriorityFees, m \in MaxFees,
        g \in Gases, t \in Targets, v \in Values}

\* calldata of every length up to MaxDataLen, and around the two-byte length 256
DataSamples ==
    {Fill(n, b) : n \in (0..MaxDataLen) \cup {255, 256}, b \in {0, 127, 128}}
    \cup {<<1, 0>>, <<0, 1>>}

DataTxs == {[SignedTestTx EXCEPT !.data = d] : d \in DataSamples}

\* the sequences over S of length at most n
SeqUpTo(S, n) == UNION {[1..m -> S] : m \in 0..n}

\* the access lists of at most n addresses and storage keys together
RECURSIVE AccessLists(_)
AccessLists(n) ==
    {<< >>} \cup
    UNION {{<< <<a, ks>> >> \o rest : rest \in AccessLists(n - 1 - Len(ks))} :
              a \in Addresses, ks \in SeqUpTo(StorageSlots, n - 1)}

AccessTxs ==
    {[TransactionDefault EXCEPT !.access_list = al] : al \in AccessLists(MaxAccessItems)}

Transactions ==
    NumericTxs \cup DataTxs \cup AccessTxs
    \cup {TransactionDefault, SignedTestTx, EncodeTestTx1, EncodeTestTx2}

\* the signature of tests::encode_signed_transaction
TestSignature ==
    [y_parity |-> 1,
     r |-> <<\h29, \h0d, \hbd, \hec, \hbc, \h88, \h4b, \h4c, \hb8, \h27, \h01,
             \h5f, \he0, \hcd, \h7a, \hc9, \h0d, \hf1, \ha5, \h63, \h4d, \h52,
             \ha2, \h84, \h5c, \h21, \haf, \hac, \hca, \h14, \hb8, \h03>>,
     s |-> <<\h3e, \h84, \h8d, \hd1, \ha3, \h42, \he5, \h52, \h8b, \hef, \hf9,
             \h9c, \h42, \h87, \h6c, \hf0, \h91, \ha6, \h8e, \h20, \h90, \hdb,
             \hbc, \hed, \h5a, \h5f, \h7f, \h39, \h2d, \h3a, \hbc, \hda>>]

Signatures ==
    {TestSignature,
     [y_parity |-> 1, r |-> U256Max, s |-> U256Top],
     [y_parity |-> 0, r |-> as_u256(1), s |-> as_u256(128)],
     [y_parity |-> 1, r |-> as_u256(256), s |-> as_u256(0)]}

\* what Wallet::sign may fail with
SignErrors == {"invalid private key", "signer fault"}

(***************************************************************************)
(* Calls on a Transaction.                                                 *)
(***************************************************************************)
Init ==
    /\ tx \in Transactions
    /\ pc = "idle" /\ call = "" /\ arg = None /\ ret = << >>
    /\ signLog = << >> /\ answer = << >> /\ encodeLog = << >>
    /\ size = 0 /\ salt = << >> /\ seed = 0 /\ spc = "idle" /\ sret = << >>

\* tx.rlp_encode(signature)
call_rlp_encode(signature) ==
    /\ pc = "idle"
    /\ call' = "rlp_encode" /\ arg' = signature
    /\ ret' = rlp_encode(tx, signature)
    /\ signLog' = << >> /\ answer' = << >> /\ encodeLog' = <<signature>>
    /\ UNCHANGED <<tx, pc>>
    /\ UNCHANGED saltVars

\* tx.get_unsigned_rlp_encoded()
call_get_unsigned_rlp_encoded ==
    /\ pc = "idle"
    /\ call' = "get_unsigned_rlp_encoded" /\ arg' = None
    /\ ret' = get_unsigned_rlp_encoded(tx)
    /\ signLog' = << >> /\ answer' = << >> /\ encodeLog' = <<None>>
    /\ UNCHANGED <<tx, pc>>
    /\ UNCHANGED saltVars

\* tx.get_signed_rlp_encoded(signature)
call_get_signed_rlp_encoded(signature) ==
    /\ pc = "idle"
    /\ call' = "get_signed_rlp_encoded" /\ arg' = Some(signature)
    /\ ret' = get_signed_rlp_encoded(tx, signature)
    /\ signLog' = << >> /\ answer' = << >> /\ encodeLog' = <<Some(signature)>>
    /\ UNCHANGED <<tx, pc>>
    /\ UNCHANGED saltVars

\* tx.sign_with_wallet(wallet), up to the call of wallet.sign(message)
sign_with_wallet ==
    /\ pc = "idle"
    /\ pc' = "wallet.sign"
    /\ call' = "sign_with_wallet" /\ arg' = None /\ ret' = << >>
    /\ signLog' = <<get_unsigned_rlp_encoded(tx)>> /\ answer' = << >>
    /\ encodeLog' = <<None>>
    /\ UNCHANGED tx
    /\ UNCHANGED saltVars

\* wallet.sign answered Ok(signature): encode with it and return Ok(encoded)
sign_with_wallet_ok(signature) ==
    /\ pc = "wallet.sign"
    /\ pc' = "idle"
    /\ answer' = <<"Ok", signature>>
    /\ ret' = <<"Ok", get_signed_rlp_encoded(tx, signature)>>
    /\ arg' = Some(signature)
    /\ encodeLog' = Append(encodeLog, Some(signature))
    /\ UNCHANGED <<tx, call, signLog>>
    /\ UNCHANGED saltVars

\* a slip: a failed wallet.sign is tried a second time
sign_with_wallet_err_retry(e) ==
    /\ pc = "wallet.sign"
    /\ Len(signLog) < 2
    /\ signLog' = Append(signLog, get_unsigned_rlp_encoded(tx))
    /\ answer' = <<"Err", e>>
    /\ UNCHANGED <<tx, pc, call, arg, ret, encodeLog>>
    /\ UNCHANGED saltVars

\* wallet.sign answered Err(e): the ? operator returns it at once
sign_with_wallet_err(e) ==
    /\ pc = "wallet.sign"
    /\ pc' = "idle"
    /\ answer' = <<"Err", e>>
    /\ ret' = <<"Err", e>>
    /\ UNCHANGED <<tx, call, arg, signLog, encodeLog>>
    /\ UNCHANGED saltVars

Next ==
    \/ \E signature \in {None} \cup {Some(sg) : sg \in Signatures} :
          call_rlp_encode(signature)
    \/ call_get_unsigned_rlp_encoded
    \/ \E signature \in Signatures : call_get_signed_rlp_encoded(signature)
    \/ sign_with_wallet
    \/ \E signature \in Signatures : sign_with_wallet_ok(signature)
    \/ \E e \in SignErrors : sign_with_wallet_err(e)

Spec == Init /\ [][Next]_vars

(***************************************************************************)
(* generate_salt and get_random_bytes (src/utils.rs).                      *)
(***************************************************************************)
\* StdRng::fill_bytes: n bytes decided by the seed (a stand-in for the generator)
fill_bytes(sd, n) == [i \in 1..n |-> (sd * 97 + i * 31 + 1) % 256]

\* generate_salt(n): vec![0u8; n], then get_random_bytes(&mut salt) is entered
generate_salt(n) ==
    /\ spc \in {"idle", "returned"}
    /\ size' = n /\ salt' = Fill(n, 0)
    /\ seed' = 0 /\ sret' = << >>
    /\ spc' = "fill"
    /\ UNCHANGED txVars

\* get_rng() seeds a generator from entropy and rng.fill_bytes writes the buffer
get_random_bytes_fill(sd) ==
    /\ spc = "fill"
    /\ seed' = sd
    /\ salt' = fill_bytes(sd, Len(salt))
    /\ spc' = "assert"
    /\ UNCHANGED <<size, sret>>
    /\ UNCHANGED txVars

\* a slip: the limit checked as len < 256
get_random_bytes_assert_strict ==
    /\ spc = "assert"
    /\ IF Len(salt) < 256
       THEN spc' = "returned" /\ sret' = <<"Ok">>
       ELSE spc' = "panic" /\ sret' = << >>
    /\ UNCHANGED <<size, salt, seed>>
    /\ UNCHANGED txVars

\* assert!(len <= 256); Ok(()) and generate_salt returns the buffer, or the panic
get_random_bytes_assert ==
    /\ spc = "assert"
    /\ IF Len(salt) <= 256
       THEN spc' = "returned" /\ sret' = <<"Ok">>
       ELSE spc' = "panic" /\ sret' = << >>
    /\ UNCHANGED <<size, salt, seed>>
    /\ UNCHANGED txVars

SaltInit ==
    /\ tx = TransactionDefault
    /\ pc = "idle" /\ call = "" /\ arg = None /\ ret = << >>
    /\ signLog = << >> /\ answer = << >> /\ encodeLog = << >>
    /\ size = 0 /\ salt = << >> /\ seed = 0 /\ spc = "idle" /\ sret = << >>

SaltNext ==
    \/ \E n \in 0..MaxSaltSize : generate_salt(n)
    \/ \E sd \in 0..MaxSeed : get_random_bytes_fill(sd)
    \/ get_random_bytes_assert

SaltSpec == SaltInit /\ [][SaltNext]_vars

(***************************************************************************)
(* Reading an encoding back, for the properties below.  These definitions  *)
(* follow the encoding rules themselves and use none of the encoders       *)
(* above.                                                                  *)
(***************************************************************************)
RECURSIVE Pow256(_)
Pow256(k) == IF k = 0 THEN 1 ELSE 256 * Pow256(k - 1)

\* the number the big-endian bytes b stand for
BeValue(b) ==
    LET RECURSIVE val(_)
        val(n) == IF n = 0 THEN 0 ELSE val(n - 1) * 256 + b[n]
    IN  val(Len(b))

\* the number of bytes of the shortest big-endian form of n
RECURSIVE BeWidth(_)
BeWidth(n) == IF n = 0 THEN 0 ELSE 1 + BeWidth(n \div 256)

\* the shortest big-endian form of n
RefBe(n) == [i \in 1..BeWidth(n) |-> (n \div Pow256(BeWidth(n) - i)) % 256]

\* a byte string as the encoding rules write it
RefString(b) ==
    IF Len(b) = 1 /\ b[1] <= 127 THEN b
    ELSE IF Len(b) <= 55 THEN <<128 + Len(b)>> \o b
    ELSE <<183 + BeWidth(Len(b))>> \o RefBe(Len(b)) \o b

\* the prefix of a list whose items take c bytes together
RefListPrefix(c) ==
    IF c <= 55 THEN <<192 + c>> ELSE <<247 + BeWidth(c)>> \o RefBe(c)

\* b[from..to], cut to what b holds
Slice(b, from, to) ==
    IF to > Len(b) THEN SubSeq(b, from, Len(b)) ELSE SubSeq(b, from, to)

\* the item starting at b[i]: is it a list, its prefix length, its payload length
Header(b, i) ==
    LET p == b[i]
    IN  CASE p < 128 -> [list |-> FALSE, hdr |-> 0, len |-> 1]
          [] p >= 128 /\ p < 184 -> [list |-> FALSE, hdr |-> 1, len |-> p - 128]
          [] p >= 184 /\ p < 192 ->
                [list |-> FALSE, hdr |-> p - 182,
                 len |-> BeValue(Slice(b, i + 1, i + p - 183))]
          [] p >= 192 /\ p < 248 -> [list |-> TRUE, hdr |-> 1, len |-> p - 192]
          [] OTHER ->
                [list |-> TRUE, hdr |-> p - 246,
                 len |-> BeValue(Slice(b, i + 1, i + p - 247))]

\* the items that b is the concatenation of
Items(b) ==
    LET RECURSIVE from(_)
        from(i) ==
            IF i > Len(b) THEN << >>
            ELSE LET h == Header(b, i)
                 IN  <<Slice(b, i, i + h.hdr + h.len - 1)>> \o from(i + h.hdr + h.len)
    IN  from(1)

IsList(item) == item # << >> /\ Header(item, 1).list
IsString(item) == item # << >> /\ ~Header(item, 1).list
\* an item is whole when its prefix announces exactly the bytes that follow it
Whole(item) ==
    item # << >> /\ Len(item) = Header(item, 1).hdr + Header(item, 1).len
Payload(item) == SubSeq(item, Header(item, 1).hdr + 1, Len(item))

\* the last call returned an encoding of tx made with the Option<Signature> arg
ReturnedEncoding ==
    \/ call \in {"rlp_encode", "get_signed_rlp_encoded"}
    \/ call = "sign_with_wallet" /\ pc = "idle" /\ ret[1] = "Ok"

\* that encoding
Encoding == IF call = "sign_with_wallet" THEN ret[2] ELSE ret

\* the items inside the list that follows the type byte
EncodedItems == Items(Payload(Tail(Encoding)))

\* the bytes of the target field: none for a contract creation
ToBytes(t) == IF t.to = << >> THEN << >> ELSE t.to[1]

Zero256 == [i \in 1..32 |-> 0]

(***************************************************************************)
(* C1: every encoding, signed or not, is the byte 0x02 followed by one     *)
(* list whose first nine items are uint(chain_id), uint(nonce),            *)
(* uint(max_priority_fee_per_gas), uint(max_fee_per_gas), uint(gas),       *)
(* bytes(to) (empty for None, else the 20 address bytes), uint(value),     *)
(* bytes(data) and the access-list encoding, in this order; the 0x02 is    *)
(* outside the list.                                                       *)
(***************************************************************************)
C1_FieldOrder ==
    ReturnedEncoding =>
        /\ Encoding[1] = 2
        /\ IsList(Tail(Encoding)) /\ Whole(Tail(Encoding))
        /\ Len(EncodedItems) >= 9
        /\ SubSeq(EncodedItems, 1, 9) =
              << rlp_uint(tx.chain_id),
                 rlp_uint(tx.nonce),
                 rlp_uint(tx.max_priority_fee_per_gas),
                 rlp_uint(tx.max_fee_per_gas),
                 rlp_uint(tx.gas),
                 rlp_bytes(ToBytes(tx)),
                 rlp_uint(tx.value),
                 rlp_bytes(tx.data),
                 access_list_rlp_encode(tx.access_list) >>
        /\ tx.to # None => Len(Payload(EncodedItems[6])) = 20
        /\ tx.to = None => EncodedItems[6] = <<128>>

\* the second transaction of tests::encode (every field set, no two equal), signed
C1_Witness ==
    /\ call = "rlp_encode" /\ arg = Some(TestSignature)
    /\ tx = EncodeTestTx2
    /\ ret[1] = 2 /\ Len(EncodedItems) = 12

(***************************************************************************)
(* C2: the items of rlp_encode(Some(sig)) are the items of                 *)
(* rlp_encode(None) followed by exactly uint(y_parity), uint(r), uint(s);  *)
(* rlp_encode(None) has exactly nine items; the list prefix of the signed  *)
(* encoding counts all twelve items.                                       *)
(***************************************************************************)
C2_SignatureItems ==
    ReturnedEncoding =>
        LET unsigned == Items(Payload(Tail(rlp_encode(tx, None))))
        IN  /\ Len(unsigned) = 9
            /\ Whole(Tail(Encoding))
            /\ Header(Tail(Encoding), 1).len = Len(Concat(EncodedItems))
            /\ arg = None => EncodedItems = unsigned
            /\ arg # None =>
                  /\ Len(EncodedItems) = 12
                  /\ SubSeq(EncodedItems, 1, 9) = unsigned
                  /\ EncodedItems[10] = rlp_uint(as_u256(arg[1].y_parity))
                  /\ EncodedItems[11] = rlp_uint(arg[1].r)
                  /\ EncodedItems[12] = rlp_uint(arg[1].s)

\* the signed test transaction with the signature of the test
C2_Witness ==
    /\ call = "rlp_encode" /\ arg = Some(TestSignature)
    /\ tx = SignedTestTx
    /\ Len(EncodedItems) = 12 /\ Len(Items(Payload(Tail(rlp_encode(tx, None))))) = 9

\* the bytes tests::encode_signed_transaction expects
SignedTestExpected ==
    <<\h02, \hf8, \h62, \h01, \h80, \h80, \h80, \h82, \h52, \h08, \h94, \h00,
      \h00, \h00, \h00, \h00, \h00, \h00, \h00, \h00, \h00, \h00, \h00, \h00,
      \h00, \h00, \h00, \h00, \h00, \h00, \h00, \h80, \h80, \hc0, \h01, \ha0,
      \h29, \h0d, \hbd, \hec, \hbc, \h88, \h4b, \h4c, \hb8, \h27, \h01, \h5f,
      \he0, \hcd, \h7a, \hc9, \h0d, \hf1, \ha5, \h63, \h4d, \h52, \ha2, \h84,
      \h5c, \h21, \haf, \hac, \hca, \h14, \hb8, \h03, \ha0, \h3e, \h84, \h8d,
      \hd1, \ha3, \h42, \he5, \h52, \h8b, \hef, \hf9, \h9c, \h42, \h87, \h6c,
      \hf0, \h91, \ha6, \h8e, \h20, \h90, \hdb, \hbc, \hed, \h5a, \h5f, \h7f,
      \h39, \h2d, \h3a, \hbc, \hda>>

\* a number whose first byte is set fills all 32 bytes
FullWidth(v) == v[1] # 0

\* the signed test transaction was encoded under such a signature
GoldenCase ==
    /\ ReturnedEncoding
    /\ tx = SignedTestTx
    /\ arg # None
    /\ arg[1].y_parity = 1 /\ FullWidth(arg[1].r) /\ FullWidth(arg[1].s)

(***************************************************************************)
(* C3 as stated: the signed test transaction, under a signature with       *)
(* y_parity = 1 and r, s of a full 32 bytes each, encodes to 113 bytes     *)
(* that start 02 f8 62 01.                                                 *)
(***************************************************************************)
C3_Golden113 ==
    GoldenCase =>
        /\ Len(Encoding) = 113
        /\ SubSeq(Encoding, 1, 4) = <<\h02, \hf8, \h62, \h01>>

(***************************************************************************)
(* C3 amended: the signed test transaction, under a signature with         *)
(* y_parity = 1 and r, s of a full 32 bytes each, encodes to 101 bytes     *)
(* that start 02 f8 62 01 (0x62 = 98 bytes of items after a 3-byte         *)
(* prefix), and under the signature of the test to the bytes the test      *)
(* expects.                                                                *)
(***************************************************************************)
C3_Golden101 ==
    GoldenCase =>
        /\ Len(Encoding) = 101
        /\ SubSeq(Encoding, 1, 4) = <<\h02, \hf8, \h62, \h01>>
        /\ arg[1] = TestSignature => Encoding = SignedTestExpected

\* sign_with_wallet returned the signed test transaction
C3_Witness ==
    /\ call = "sign_with_wallet" /\ pc = "idle" /\ ret[1] = "Ok"
    /\ tx = SignedTestTx /\ arg = Some(TestSignature)
    /\ ret[2] = SignedTestExpected /\ Len(ret[2]) = 101

(***************************************************************************)
(* C4: sign_with_wallet calls wallet.sign exactly once, with the 32-byte   *)
(* hash of rlp_encode(None) of the same transaction.  When the call fails  *)
(* sign_with_wallet returns that failure, no payload, signs no second      *)
(* time and makes no signed encoding; when it succeeds the result is       *)
(* rlp_encode(Some(signature)) for the signature the wallet returned.      *)
(***************************************************************************)
C4_SignOnce ==
    call = "sign_with_wallet" =>
        /\ signLog = <<keccak256(rlp_encode(tx, None))>>
        /\ Len(signLog[1]) = 32
        /\ pc = "wallet.sign" => ret = << >> /\ answer = << >> /\ encodeLog = <<None>>
        /\ pc = "idle" => answer # << >>
        /\ (pc = "idle" /\ answer[1] = "Err") =>
              /\ ret = <<"Err", answer[2]>>
              /\ encodeLog = <<None>>
        /\ (pc = "idle" /\ answer[1] = "Ok") =>
              /\ ret = <<"Ok", rlp_encode(tx, Some(answer[2]))>>
              /\ encodeLog = <<None, Some(answer[2])>>

\* the wallet refused to sign and sign_with_wallet returned its error
C4_Witness ==
    /\ call = "sign_with_wallet" /\ pc = "idle"
    /\ answer = <<"Err", "signer fault">>
    /\ ret = <<"Err", "signer fault">>
    /\ Len(signLog) = 1 /\ encodeLog = <<None>>

\* the numbers of an encoding, each with the place of its item
UintItems ==
    << <<1, tx.chain_id>>, <<2, tx.nonce>>, <<3, tx.max_priority_fee_per_gas>>,
       <<4, tx.max_fee_per_gas>>, <<5, tx.gas>>, <<7, tx.value>> >> \o
    (IF arg = None THEN << >>
     ELSE << <<10, as_u256(arg[1].y_parity)>>, <<11, arg[1].r>>, <<12, arg[1].s>> >>)

(***************************************************************************)
(* C5: every unsigned integer among the fields of the transaction and of   *)
(* the signature is encoded as the byte string of its shortest big-endian  *)
(* form: the string stands for the number, never starts with a 0x00 byte,  *)
(* and zero is the empty string, the single byte 0x80.                     *)
(***************************************************************************)
C5_MinimalUint ==
    ReturnedEncoding =>
        /\ Len(EncodedItems) = (IF arg = None THEN 9 ELSE 12)
        /\ \A k \in 1..Len(UintItems) :
              LET item == EncodedItems[UintItems[k][1]]
                  n == UintItems[k][2]
                  string == Payload(item)
              IN  /\ IsString(item) /\ Whole(item)
                  /\ Len(string) <= 32
                  /\ Fill(32 - Len(string), 0) \o string = n
                  /\ string # << >> => string[1] # 0
                  /\ item = RefString(string)
                  /\ n = Zero256 => item = <<128>>

\* zero, a number with a zero byte inside (256) and a full 32-byte number together
C5_Witness ==
    /\ call = "rlp_encode"
    /\ tx.nonce = as_u256(256) /\ tx.value = as_u256(0) /\ tx.gas = U256Max
    /\ arg # None /\ arg[1].r = as_u256(256) /\ arg[1].s = as_u256(0)
    /\ EncodedItems[2] = <<130, 1, 0>> /\ EncodedItems[7] = <<128>>
    /\ EncodedItems[12] = <<128>> /\ Len(EncodedItems[5]) = 33

SignatureOptions == {None} \cup {Some(sg) : sg \in Signatures}

\* every sampled transaction with its encoding, per Option<Signature>
Encodings ==
    [sg \in SignatureOptions |-> {<<t, rlp_encode(t, sg)>> : t \in Transactions}]

(***************************************************************************)
(* C6: encoding is injective.  Two transactions that differ in a field     *)
(* (a number, the target with None against Some, the calldata, the access  *)
(* list with the order of its entries and keys) have different             *)
(* rlp_encode(None), and under one signature different                     *)
(* rlp_encode(Some(sig)).                                                  *)
(***************************************************************************)
C6_Injective ==
    ReturnedEncoding =>
        \A e \in Encodings[arg] : e[2] = Encoding => e[1] = tx

\* a contract creation whose twin sent to the zero address is sampled too
C6_Witness ==
    /\ call = "rlp_encode" /\ arg = Some(TestSignature)
    /\ tx.to = None /\ [tx EXCEPT !.to = Some(ZeroAddress)] \in Transactions
    /\ rlp_encode([tx EXCEPT !.to = Some(ZeroAddress)], arg) # ret

(***************************************************************************)
(* C7: a byte string b of length L used as a field (to, data, the bytes    *)
(* of a number) is encoded as b itself when L = 1 and b[1] <= 0x7f,        *)
(* otherwise as 0x80+L then b when L <= 55 (L = 0 and a single byte        *)
(* >= 0x80 included), otherwise as 0xb7+k, the k bytes of the shortest     *)
(* big-endian form of L, then b.  The boundary is at 55/56.                *)
(***************************************************************************)
C7_ByteStrings ==
    ReturnedEncoding =>
        /\ Len(EncodedItems) = (IF arg = None THEN 9 ELSE 12)
        /\ EncodedItems[6] = RefString(ToBytes(tx))
        /\ EncodedItems[8] = RefString(tx.data)
        /\ \A k \in 1..Len(UintItems) :
              LET item == EncodedItems[UintItems[k][1]]
              IN  /\ IsString(item) /\ Whole(item)
                  /\ item = RefString(Payload(item))
        /\ (Len(tx.data) = 1 /\ tx.data[1] <= 127) => EncodedItems[8] = tx.data
        /\ (Len(tx.data) = 1 /\ tx.data[1] >= 128) => EncodedItems[8] = <<129>> \o tx.data
        /\ Len(tx.data) = 0 => EncodedItems[8] = <<128>>
        /\ Len(tx.data) = 55 => EncodedItems[8] = <<183>> \o tx.data
        /\ Len(tx.data) = 56 => EncodedItems[8] = <<184, 56>> \o tx.data
        /\ Len(tx.data) = 256 => EncodedItems[8] = <<185, 1, 0>> \o tx.data

\* calldata of 56 bytes: the first length that needs a length of its own
C7_Witness ==
    /\ call = "rlp_encode" /\ arg = None
    /\ Len(tx.data) = 56
    /\ SubSeq(EncodedItems[8], 1, 2) = <<184, 56>> /\ Len(EncodedItems[8]) = 58

\* the bytes of the items of an encoding of t with signature option sg
ItemBytes(t, sg) ==
    Len(rlp_uint(t.chain_id)) + Len(rlp_uint(t.nonce))
    + Len(rlp_uint(t.max_priority_fee_per_gas)) + Len(rlp_uint(t.max_fee_per_gas))
    + Len(rlp_uint(t.gas)) + Len(rlp_bytes(ToBytes(t))) + Len(rlp_uint(t.value))
    + Len(rlp_bytes(t.data)) + Len(access_list_rlp_encode(t.access_list))
    + (IF sg = None THEN 0
       ELSE Len(rlp_uint(as_u256(sg[1].y_parity))) + Len(rlp_uint(sg[1].r))
            + Len(rlp_uint(sg[1].s)))

(***************************************************************************)
(* C8: the prefix of the list depends on C, the number of bytes of the     *)
(* encoded items together (not on how many items there are): 0xc0+C when   *)
(* C <= 55, otherwise 0xf7+k and the k bytes of the shortest big-endian    *)
(* form of C; so the output is 1 + the prefix + C bytes long.              *)
(***************************************************************************)
C8_ListPrefix ==
    ReturnedEncoding =>
        LET C == ItemBytes(tx, arg)
            prefix == RefListPrefix(C)
        IN  /\ Len(Encoding) = 1 + Len(prefix) + C
            /\ SubSeq(Encoding, 2, 1 + Len(prefix)) = prefix
            /\ C <= 55 => Encoding[2] = 192 + C
            /\ (C > 55 /\ C < 256) => Encoding[2] = 248 /\ Encoding[3] = C
            /\ (C >= 256 /\ C < 65536) =>
                  /\ Encoding[2] = 249
                  /\ Encoding[3] = C \div 256 /\ Encoding[4] = C % 256

\* nine items of 56 bytes together: the first total that needs a length of its own
C8_Witness ==
    /\ call = "rlp_encode" /\ arg = None
    /\ ItemBytes(tx, arg) = 56 /\ Len(EncodedItems) = 9
    /\ SubSeq(ret, 1, 3) = <<2, 248, 56>> /\ Len(ret) = 59

(***************************************************************************)
(* C9: the access list is always in the encoding, as a list: 0xc0 when it  *)
(* is empty, otherwise a list of two-item lists [the 20 address bytes as   *)
(* a string, the list of the 32-byte keys as strings], entries and keys    *)
(* in the stored order, nothing sorted or dropped; an entry without keys   *)
(* has 0xc0 for its keys.                                                  *)
(***************************************************************************)
C9_AccessList ==
    ReturnedEncoding =>
        /\ Len(EncodedItems) = (IF arg = None THEN 9 ELSE 12)
        /\ LET item == EncodedItems[9]
               entries == Items(Payload(item))
           IN  /\ IsList(item) /\ Whole(item)
               /\ tx.access_list = << >> => item = <<192>>
               /\ Len(entries) = Len(tx.access_list)
               /\ \A i \in 1..Len(entries) :
                     LET pair == Items(Payload(entries[i]))
                         keys == Items(Payload(pair[2]))
                         stored == tx.access_list[i]
                     IN  /\ IsList(entries[i]) /\ Whole(entries[i])
                         /\ Len(pair) = 2
                         /\ pair[1] = <<148>> \o stored[1]
                         /\ IsList(pair[2]) /\ Whole(pair[2])
                         /\ stored[2] = << >> => pair[2] = <<192>>
                         /\ Len(keys) = Len(stored[2])
                         /\ \A j \in 1..Len(keys) : keys[j] = <<160>> \o stored[2][j]

\* the higher address first and with the same key twice, then an entry without keys
C9_Witness ==
    /\ call = "rlp_encode" /\ arg = None
    /\ tx.access_list = << <<Fill(20, \h22), <<Fill(32, \ha1), Fill(32, \ha1)>> >>,
                           <<Fill(20, \h11), << >> >> >>
    /\ Len(Items(Payload(EncodedItems[9]))) = 2
    /\ Len(Items(Payload(Items(Payload(Items(Payload(EncodedItems[9]))[1]))[2]))) = 2

(***************************************************************************)
(* C10: generate_salt(size) returns exactly size bytes when size <= 256.   *)
(* When size > 256 it does not return: get_random_bytes has filled the     *)
(* whole buffer when it asserts len <= 256, and the call ends in the       *)
(* assertion failure; get_random_bytes never returns an Err.               *)
(***************************************************************************)
C10_SaltSize ==
    /\ sret \in {<< >>, <<"Ok">>}
    /\ spc = "returned" => size <= 256 /\ Len(salt) = size /\ sret = <<"Ok">>
    /\ spc = "panic" => size > 256 /\ sret = << >>
    /\ spc \in {"assert", "returned", "panic"} =>
          Len(salt) = size /\ salt = fill_bytes(seed, size)
    /\ (spc \in {"returned", "panic"} /\ size <= 256) => spc = "returned"
    /\ (spc \in {"returned", "panic"} /\ size > 256) => spc = "panic"

\* the first size past the limit: the buffer is filled and the call has panicked
C10_Witness ==
    /\ spc = "panic" /\ size = 257
    /\ Len(salt) = 257 /\ salt = fill_bytes(seed, 257) /\ sret = << >>

====
